---- MODULE Spec2Model ----
(***************************************************************************)
(* Shape, call-order and state model of the model classes of               *)
(* src/models/model.py: VideoSpatioEncoder, SlowFastEncoder, the three     *)
(* classifiers that wire their head by a probe forward pass,               *)
(* SlowFastDisruptionClassifier.update_bn_splits_long_cycle and            *)
(* SBERTDisruptionClassifier.                                              *)
(*                                                                         *)
(* A tensor is modelled by its shape (a sequence of naturals); where the   *)
(* claims speak about contents (frames of a clip, rows of doy, the order   *)
(* of concatenated parts) the content is carried next to the shape.  The   *)
(* outcome of a call is a record: [ok |-> TRUE, shape |-> s] or            *)
(* [ok |-> FALSE, err |-> e], e naming the exception that propagates.      *)
(***************************************************************************)
EXTENDS Integers, Sequences, FiniteSets, TLC

VARIABLES
    obj,            \* the class whose instance is exercised
    vse, vseIn, vseOut,                        \* VideoSpatioEncoder
    sf, sfpc, sfCall, sfLoc, sfPrevLaterals,   \* SlowFastEncoder.forward
    clf, clfPre, clfLastOp, clfIn, clfOut,     \* the probing classifiers
    bn, bnPre, bnRet, bnLastK,                 \* update_bn_splits_long_cycle
    sb, sbB, sbLog                             \* SBERTDisruptionClassifier

vseVars == <<vse, vseIn, vseOut>>
sfVars  == <<sf, sfpc, sfCall, sfLoc, sfPrevLaterals>>
clfVars == <<clf, clfPre, clfLastOp, clfIn, clfOut>>
bnVars  == <<bn, bnPre, bnRet, bnLastK>>
sbVars  == <<sb, sbB, sbLog>>
vars    == <<obj, vseVars, sfVars, clfVars, bnVars, sbVars>>

----------------------------------------------------------------------------
\* Bounds of the exploration.
MaxBatch == 3

\* Python's None / an Optional value.
None == <<>>
Some(v) == <<v>>

Ok(s) == [ok |-> TRUE, shape |-> s]
Err(e) == [ok |-> FALSE, err |-> e]

\* The exceptions the tensor framework and the language runtime raise.
FrameworkErrors == {"RuntimeError", "ValueError", "TypeError"}

Ceil(a, b) == (a + b - 1) \div b

RECURSIVE Prod(_)
Prod(s) == IF s = <<>> THEN 1 ELSE Head(s) * Prod(Tail(s))

----------------------------------------------------------------------------
\* VideoSpatioEncoder

\* Conv3dResBlock(..., kernel_size = 3, stride = 2, dilation = 1, padding = 1, ...)
KernelSize == 3
Stride == 2
Dilation == 1
Padding == 1

\* nn.MaxPool3d(kernel_size = (1, 3, 3), stride = (1, 1, 1), padding = (0, 0, 0))
PoolKernel == <<1, 3, 3>>
PoolStride == <<1, 1, 1>>
PoolPadding == <<0, 0, 0>>

\* Output extent of a convolution or pooling window along one axis.
WindowOut(l, k, s, p, d) == ((l + 2 * p - d * (k - 1) - 1) \div s) + 1

\* Conv3dResBlock lives in src/models/layer.py.  It is taken to be a residual
\* block of Conv3d layers with the arguments the caller passes; whether the
\* stride also applies to the time axis is left open (self.tstride).
Conv3dResBlock(self, r, cin, cout) ==
    IF ~r.ok THEN r
    ELSE IF Len(r.shape) # 5 \/ r.shape[2] # cin THEN Err("RuntimeError")
    ELSE LET x == r.shape
             t == WindowOut(x[3], KernelSize, self.tstride, Padding, Dilation)
             h == WindowOut(x[4], KernelSize, Stride, Padding, Dilation)
             w == WindowOut(x[5], KernelSize, Stride, Padding, Dilation)
         IN Ok(<<x[1], cout, t, h, w>>)

\* A pooling block that pads like the convolutions (keeps the frame size).
MaxPool3d_padded(r) ==
    IF ~r.ok THEN r
    ELSE LET x == r.shape
             t == WindowOut(x[3], PoolKernel[1], PoolStride[1], 0, 1)
             h == WindowOut(x[4], PoolKernel[2], PoolStride[2], 1, 1)
             w == WindowOut(x[5], PoolKernel[3], PoolStride[3], 1, 1)
         IN IF t <= 0 \/ h <= 0 \/ w <= 0 THEN Err("RuntimeError")
            ELSE Ok(<<x[1], x[2], t, h, w>>)

\* self.pooling_block1..3
MaxPool3d(r) ==
    IF ~r.ok THEN r
    ELSE LET x == r.shape
             t == WindowOut(x[3], PoolKernel[1], PoolStride[1], PoolPadding[1], 1)
             h == WindowOut(x[4], PoolKernel[2], PoolStride[2], PoolPadding[2], 1)
             w == WindowOut(x[5], PoolKernel[3], PoolStride[3], PoolPadding[3], 1)
         IN IF t <= 0 \/ h <= 0 \/ w <= 0 THEN Err("RuntimeError")
            ELSE Ok(<<x[1], x[2], t, h, w>>)

\* x.view(a, b, -1): the last extent is inferred; the element count must divide.
View3(r, a, b) ==
    IF ~r.ok THEN r
    ELSE LET n == Prod(r.shape)
         IN IF a * b = 0 \/ n % (a * b) # 0 THEN Err("RuntimeError")
            ELSE Ok(<<a, b, n \div (a * b)>>)

\* A forward that first compares the input with the configured input_shape.
VideoSpatioEncoder_forward_checked(self, x) ==
    LET b1 == Conv3dResBlock(self, Ok(x), 3, 64)
        b2 == Conv3dResBlock(self, MaxPool3d(b1), 64, 128)
        b3 == Conv3dResBlock(self, MaxPool3d(b2), 128, 256)
        b4 == Conv3dResBlock(self, MaxPool3d(b3), 256, 512)
    IN IF Tail(x) # self.input_shape THEN Err("ShapeMismatch")
       ELSE View3(b4, x[1], self.seq_len)

VideoSpatioEncoder_forward(self, x) ==
    LET b1 == Conv3dResBlock(self, Ok(x), 3, 64)
        p1 == MaxPool3d(b1)
        b2 == Conv3dResBlock(self, p1, 64, 128)
        p2 == MaxPool3d(b2)
        b3 == Conv3dResBlock(self, p2, 128, 256)
        p3 == MaxPool3d(b3)
        b4 == Conv3dResBlock(self, p3, 256, 512)
    IN View3(b4, x[1], self.seq_len)

\* VideoSpatioEncoder.__init__: input_shape and seq_len = input_shape[1].
VideoSpatioEncoder_init(input_shape, tstride) ==
    [input_shape |-> input_shape, seq_len |-> input_shape[2], tstride |-> tstride]

VideoSpatioEncoder_get_output_size(self) ==
    VideoSpatioEncoder_forward(self, <<1>> \o self.input_shape)

\* The configurations built and the clips fed.
DefaultInputShape == <<3, 8, 112, 112>>
InputShapes == {DefaultInputShape, <<3, 6, 96, 96>>}
FrameSizes == {8, 96, 112}
ClipShapes ==
    {<<n, c, t, h, h>> : n \in 1..MaxBatch, c \in {1, 3}, t \in {6, 8}, h \in FrameSizes}

VSE_Init ==
    /\ \E s \in InputShapes, ts \in {1, Stride} : vse = VideoSpatioEncoder_init(s, ts)
    /\ vseIn = <<>>
    /\ vseOut = Err("not called")

VSE_Idle == vse = None /\ vseIn = <<>> /\ vseOut = Err("not called")

VSE_Forward ==
    /\ obj = "VideoSpatioEncoder"
    /\ \E x \in ClipShapes :
         /\ vseIn' = x
         /\ vseOut' = VideoSpatioEncoder_forward(vse, x)
    /\ UNCHANGED <<obj, vse, sfVars, clfVars, bnVars, sbVars>>

VSE_GetOutputSize ==
    /\ obj = "VideoSpatioEncoder"
    /\ vseIn' = <<1>> \o vse.input_shape
    /\ vseOut' = VideoSpatioEncoder_get_output_size(vse)
    /\ UNCHANGED <<obj, vse, sfVars, clfVars, bnVars, sbVars>>

----------------------------------------------------------------------------
\* SlowFastEncoder

MaxFrames == 5
MaxAlpha == 3
MaxTau == 2
MaxCalls == 2

\* Feature widths of the two pathways (resnet50_s / resnet50_f live in
\* src/models/slowfast.py; the widths are those of the SlowFast ResNet-50).
PathwayWidth == [slow |-> 2048, fast |-> 256]

\* A clip: batch, channels, the frames it holds (by index in the input), height, width.
Clip(n, c, t, h, w) == [n |-> n, c |-> c, frames |-> [i \in 1..t |-> i - 1], h |-> h, w |-> w]

\* Python's s[::step]: the elements at positions 0, step, 2*step, ...
RECURSIVE SliceFrom(_, _, _)
SliceFrom(s, i, step) ==
    IF i > Len(s) THEN <<>> ELSE <<s[i]>> \o SliceFrom(s, i + step, step)

Slice(s, step) == SliceFrom(s, 1, step)

SlowFastEncoder_init(input_shape, alpha, tau_fast) ==
    [input_shape |-> input_shape, seq_len |-> input_shape[2],
     in_channels |-> input_shape[1], alpha |-> alpha, tau_fast |-> tau_fast]

\* A split whose slow stride adds alpha to tau_fast instead of multiplying.
split_slow_fast_added(self, x) ==
    LET tau_fast == self.tau_fast
        tau_slow == tau_fast + self.alpha
    IN <<[x EXCEPT !.frames = Slice(x.frames, tau_slow)],
         [x EXCEPT !.frames = Slice(x.frames, tau_fast)]>>

\* SlowFastEncoder.split_slow_fast: <<x_slow, x_fast>>
split_slow_fast(self, x) ==
    LET tau_fast == self.tau_fast
        tau_slow == tau_fast * self.alpha
        x_slow == [x EXCEPT !.frames = Slice(x.frames, tau_slow)]
        x_fast == [x EXCEPT !.frames = Slice(x.frames, tau_fast)]
    IN <<x_slow, x_fast>>

\* self.fastnet(x_fast): the fast features and the lateral connections; the
\* laterals carry the call that produced them and the frames they come from.
FastNet(x_fast, call) ==
    [feat |-> [shape |-> <<x_fast.n, PathwayWidth.fast>>,
               parts |-> <<[path |-> "fast", width |-> PathwayWidth.fast]>>],
     laterals |-> [call |-> call, n |-> x_fast.n, frames |-> x_fast.frames]]

\* self.slownet((x_slow, laterals))
SlowNet(args) ==
    [shape |-> <<args[1].n, PathwayWidth.slow>>,
     parts |-> <<[path |-> "slow", width |-> PathwayWidth.slow]>>]

\* The argument of slownet, with the laterals an earlier call left behind.
SlowNetArgs_stale(loc) ==
    <<loc.x_slow, IF sfPrevLaterals = None THEN loc.laterals ELSE sfPrevLaterals>>

\* The argument forward passes to slownet: (x_slow, laterals) of this call.
SlowNetArgs(loc) == <<loc.x_slow, loc.laterals>>

\* torch.cat([a, b], dim = 1) of two (N, F) tensors.
Cat1(a, b) ==
    [shape |-> <<a.shape[1], a.shape[2] + b.shape[2]>>, parts |-> a.parts \o b.parts]

\* torch.cat([x_slow, x_fast], dim = 1)
SlowFastEncoder_cat(x_slow, x_fast) == Cat1(x_slow, x_fast)

\* nn.Dropout keeps the shape (and the layout) of its input.
Dropout(x) == x

\* SlowFastEncoder.forward as one function of the clip (used by the classifier).
SlowFastEncoder_forward(self, x, call) ==
    LET sp == split_slow_fast(self, x)
        f == FastNet(sp[2], call)
        s == SlowNet(<<sp[1], f.laterals>>)
    IN Dropout(SlowFastEncoder_cat(s, f.feat))

SFE_Clips == {Clip(n, 3, t, 112, 112) : n \in 1..MaxBatch, t \in 1..MaxFrames}

NoLocals ==
    [x |-> None, x_slow |-> None, x_fast |-> None, laterals |-> None, fastOut |-> None,
     slowArgs |-> None, slowOut |-> None, out |-> None, events |-> <<>>]

SFE_Init ==
    /\ \E a \in 1..MaxAlpha, tau \in 1..MaxTau :
         sf = SlowFastEncoder_init(DefaultInputShape, a, tau)
    /\ sfpc = "idle" /\ sfCall = 0 /\ sfLoc = NoLocals /\ sfPrevLaterals = None

\* forward(x) is entered; the locals of an earlier call are gone.
SFE_Call ==
    /\ obj = "SlowFastEncoder"
    /\ sfpc \in {"idle", "done"}
    /\ sfCall < MaxCalls
    /\ \E x \in SFE_Clips : sfLoc' = [NoLocals EXCEPT !.x = x]
    /\ sfPrevLaterals' = sfLoc.laterals
    /\ sfCall' = sfCall + 1
    /\ sfpc' = "split"
    /\ UNCHANGED <<obj, sf, vseVars, clfVars, bnVars, sbVars>>

\* x_slow, x_fast = self.split_slow_fast(x)
SFE_Split ==
    /\ obj = "SlowFastEncoder"
    /\ sfpc = "split"
    /\ LET sp == split_slow_fast(sf, sfLoc.x)
       IN sfLoc' = [sfLoc EXCEPT !.x_slow = sp[1], !.x_fast = sp[2],
                                 !.events = Append(@, "split")]
    /\ sfpc' = "fast"
    /\ UNCHANGED <<obj, sf, sfCall, sfPrevLaterals, vseVars, clfVars, bnVars, sbVars>>

\* x_fast, laterals = self.fastnet(x_fast)
SFE_FastNet ==
    /\ obj = "SlowFastEncoder"
    /\ sfpc = "fast"
    /\ LET f == FastNet(sfLoc.x_fast, sfCall)
       IN sfLoc' = [sfLoc EXCEPT !.fastOut = f.feat, !.laterals = f.laterals,
                                 !.events = Append(@, "fastnet")]
    /\ sfpc' = "slow"
    /\ UNCHANGED <<obj, sf, sfCall, sfPrevLaterals, vseVars, clfVars, bnVars, sbVars>>

\* x_slow = self.slownet((x_slow, laterals))
SFE_SlowNet ==
    /\ obj = "SlowFastEncoder"
    /\ sfpc = "slow"
    /\ LET args == SlowNetArgs(sfLoc)
       IN sfLoc' = [sfLoc EXCEPT !.slowArgs = args, !.slowOut = SlowNet(args),
                                 !.events = Append(@, "slownet")]
    /\ sfpc' = "cat"
    /\ UNCHANGED <<obj, sf, sfCall, sfPrevLaterals, vseVars, clfVars, bnVars, sbVars>>

\* x = torch.cat([x_slow, x_fast], dim = 1); x = self.dropout(x); return x
SFE_CatDropout ==
    /\ obj = "SlowFastEncoder"
    /\ sfpc = "cat"
    /\ sfLoc' = [sfLoc EXCEPT
                   !.out = Dropout(SlowFastEncoder_cat(sfLoc.slowOut, sfLoc.fastOut)),
                   !.events = @ \o <<"cat", "dropout">>]
    /\ sfpc' = "done"
    /\ UNCHANGED <<obj, sf, sfCall, sfPrevLaterals, vseVars, clfVars, bnVars, sbVars>>

----------------------------------------------------------------------------
\* R2Plus1DClassifier, SlowFastDisruptionClassifier, Unet3DClassifier

MaxTracked == 3
MaxClasses == 3

\* Batch size of the zero sample each class probes (and summarises) with.
ProbeBatch == [R2Plus1DClassifier |-> 1, SlowFastDisruptionClassifier |-> 8, Unet3DClassifier |-> 4]
Kinds == DOMAIN ProbeBatch

\* conv1 .. conv5 of R2Plus1DNet (SpatioTemporalConv / SpatioTemporalResLayer live
\* in src/models/layer.py): 3 channels in, 512 channels out, the frame halved by
\* conv1 and by each of the three downsampling layers.
SpatioTemporalLayers(x) ==
    IF x[2] # 3 THEN Err("RuntimeError")
    ELSE Ok(<<x[1], 512, Ceil(x[3], 8), Ceil(x[4], 16), Ceil(x[5], 16)>>)

\* nn.AdaptiveAvgPool3d(1)
AdaptiveAvgPool3d1(r) ==
    IF ~r.ok THEN r ELSE Ok(<<r.shape[1], r.shape[2], 1, 1, 1>>)

\* x.view(batch_size, -1) and torch.flatten(x, start_dim = 1)
Flatten1(r) ==
    IF ~r.ok THEN r
    ELSE IF r.shape[1] = 0 THEN Err("RuntimeError")
    ELSE Ok(<<r.shape[1], Prod(Tail(r.shape))>>)

R2Plus1DNet_forward(x) == Flatten1(AdaptiveAvgPool3d1(SpatioTemporalLayers(x)))

\* UNet3D(in_channel = 3, n_classes = Unet3D_class = 3, ...) (src/models/unet3d.py):
\* one map per class, of the size of the input.
UNet3D_forward(x) ==
    IF x[2] # 3 THEN Err("RuntimeError") ELSE Ok(<<x[1], 3, x[3], x[4], x[5]>>)

\* ResNet50.forward: layer0 .. layer4 of ResNet2DPlus1D (src/models/resnet.py).
ResNet50_forward(r) ==
    IF ~r.ok THEN r
    ELSE Ok(<<r.shape[1], 2048, r.shape[3], Ceil(r.shape[4], 32), Ceil(r.shape[5], 32)>>)

\* The features handed to the head for a batch of n samples of shape input_shape.
EncoderOut(self, n) ==
    LET x == <<n>> \o self.input_shape
    IN CASE self.kind = "R2Plus1DClassifier" -> R2Plus1DNet_forward(x)
         [] self.kind = "SlowFastDisruptionClassifier" ->
              Ok(SlowFastEncoder_forward(
                     SlowFastEncoder_init(self.input_shape, 4, 1),
                     Clip(n, x[2], x[3], x[4], x[5]), 0).shape)
         [] self.kind = "Unet3DClassifier" -> Flatten1(ResNet50_forward(UNet3D_forward(x)))

\* get_res2plus1d_output_size / slowfast.get_output_size / get_resnet_output:
\* the size of the features of the zero sample.
ProbeSize(self) == EncoderOut(self, ProbeBatch[self.kind]).shape

\* A head sized by the batch axis of the probe's output.
HeadInFeatures_batchAxis(self) == ProbeSize(self)[1]

\* linear_dims = ...output_size()[1], slowfast_output_dim = ...get_output_size()[-1],
\* classifier_dims = self.get_resnet_output()[-1]
HeadInFeatures(self) ==
    IF self.kind = "R2Plus1DClassifier" THEN ProbeSize(self)[2]
    ELSE ProbeSize(self)[Len(ProbeSize(self))]

\* The head: nn.Linear(in_features, hidden), nn.BatchNorm1d(hidden), ..., 
\* nn.Linear(hidden, num_classes).  BatchNorm1d refuses a batch of one sample in
\* training mode.
ClassifierHead(self, r) ==
    IF ~r.ok THEN r
    ELSE IF r.shape[Len(r.shape)] # self.in_features THEN Err("RuntimeError")
    ELSE IF self.training /\ r.shape[1] = 1 THEN Err("ValueError")
    ELSE Ok(<<r.shape[1], self.num_classes>>)

\* One pass of n samples through encoder and head: the outcome and the buffers.
\* In training mode every batch-norm layer it reaches counts the batch
\* (num_batches_tracked) and folds it into its running statistics, the head's
\* BatchNorm1d doing so before it refuses a batch of one.
RunModel(self, n) ==
    LET feat == EncoderOut(self, n)
        reachesBn == feat.ok /\ feat.shape[Len(feat.shape)] = self.in_features
    IN [out |-> ClassifierHead(self, feat),
        feat |-> feat,
        self |-> [self EXCEPT
                    !.encTracked = IF self.training THEN @ + 1 ELSE @,
                    !.headTracked = IF self.training /\ reachesBn THEN @ + 1 ELSE @]]

\* One pass through the encoder alone (the shape probes).
RunEncoder(self, n) ==
    [out |-> EncoderOut(self, n),
     self |-> [self EXCEPT !.encTracked = IF self.training THEN @ + 1 ELSE @]]

\* __init__: the encoder is built, probed (Unet3DClassifier probes its
\* spatio_encoder twice), and the head is sized from the probe; a module starts
\* in training mode.
Classifier_init(kind, input_shape, num_classes) ==
    LET enc == [kind |-> kind, input_shape |-> input_shape, num_classes |-> num_classes,
                training |-> TRUE, in_features |-> 0, encTracked |-> 0, headTracked |-> 0]
        probed == RunEncoder(enc, ProbeBatch[kind]).self
        probed2 == IF kind = "Unet3DClassifier" THEN RunEncoder(probed, ProbeBatch[kind]).self
                   ELSE probed
    IN [probed2 EXCEPT !.in_features = HeadInFeatures(enc)]

CLF_Init ==
    /\ \E k \in Kinds, nc \in 2..MaxClasses : clf = Classifier_init(k, DefaultInputShape, nc)
    /\ clfPre = clf
    /\ clfLastOp = "init"
    /\ clfIn = [n |-> 0, feat |-> Err("not called")]
    /\ clfOut = Err("not called")

CanTrack(self) == self.training => (self.encTracked < MaxTracked /\ self.headTracked < MaxTracked)

\* forward(x), x of shape (n, *input_shape)
CLF_Forward ==
    /\ obj = "Classifier"
    /\ CanTrack(clf)
    /\ \E n \in 1..MaxBatch :
         LET r == RunModel(clf, n)
         IN /\ clf' = r.self
            /\ clfIn' = [n |-> n, feat |-> r.feat]
            /\ clfOut' = r.out
    /\ clfPre' = clf
    /\ clfLastOp' = "forward"
    /\ UNCHANGED <<obj, vseVars, sfVars, bnVars, sbVars>>

\* get_res2plus1d_output_size(), slowfast.get_output_size(), get_encoder_output(),
\* get_resnet_output(): self.forward / the encoder on the zero sample, in the
\* mode the module is in.
CLF_GetOutputSize ==
    /\ obj = "Classifier"
    /\ CanTrack(clf)
    /\ LET r == RunEncoder(clf, ProbeBatch[clf.kind])
       IN /\ clf' = r.self
          /\ clfIn' = [n |-> ProbeBatch[clf.kind], feat |-> r.out]
          /\ clfOut' = r.out
    /\ clfPre' = clf
    /\ clfLastOp' = "get_output_size"
    /\ UNCHANGED <<obj, vseVars, sfVars, bnVars, sbVars>>

\* summary(): pytorch_model_summary.summary(self, sample, ...) runs the model on
\* the zero sample and the result is printed.  Whether that library puts the
\* model in eval mode for its pass (and back afterwards) is its own business:
\* both are possible here.
CLF_Summary ==
    /\ obj = "Classifier"
    /\ CanTrack(clf)
    /\ \E libEval \in BOOLEAN :
         LET r == RunModel([clf EXCEPT !.training = IF libEval THEN FALSE ELSE @],
                           ProbeBatch[clf.kind])
         IN /\ clf' = [r.self EXCEPT !.training = clf.training]
            /\ clfIn' = [n |-> ProbeBatch[clf.kind], feat |-> r.feat]
            /\ clfOut' = IF r.out.ok THEN Ok(<<>>) ELSE r.out
    /\ clfPre' = clf
    /\ clfLastOp' = "summary"
    /\ UNCHANGED <<obj, vseVars, sfVars, bnVars, sbVars>>

\* nn.Module.train() / nn.Module.eval()
CLF_SetMode ==
    /\ obj = "Classifier"
    /\ \E m \in BOOLEAN : clf' = [clf EXCEPT !.training = m]
    /\ clfPre' = clf
    /\ clfLastOp' = "train"
    /\ UNCHANGED <<obj, clfIn, clfOut, vseVars, sfVars, bnVars, sbVars>>

----------------------------------------------------------------------------
\* SlowFastDisruptionClassifier.update_bn_splits_long_cycle

MaxSplits == 2
MaxScale == 3
MaxSubBn == 2

OkVal(v) == [ok |-> TRUE, val |-> v]

\* A product that reads None as 1.
Times_lenient(a, k) == IF a = None THEN OkVal(k) ELSE OkVal(a[1] * k)

\* Python's a * k for an Optional[int] a: None * int raises TypeError.
Times(a, k) == IF a = None THEN Err("TypeError") ELSE OkVal(a[1] * k)

\* self.base_bn_splits * long_cycle_bn_scale
SplitsFor(self, k) == Times(self.base_bn_splits, k)

\* nn.BatchNorm3d(num_features = n, affine = False): a batch norm over n features.
BatchNorm3d(n) == [num_features |-> n]

\* A module whose splits are scaled from its present splits.
UpdateModule_accumulating(self, m, k) ==
    LET num_splits == m.num_splits * k
    IN [m EXCEPT !.num_splits = num_splits,
                 !.split_bn = BatchNorm3d(m.num_features * num_splits)]

\* The loop body for one SubBatchNorm3d module m (the product is defined here).
UpdateModule(self, m, k) ==
    LET num_splits == SplitsFor(self, k).val
    IN [m EXCEPT !.num_splits = num_splits,
                 !.split_bn = BatchNorm3d(m.num_features * num_splits)]

\* for m in self.modules(): ...; return ...   from module i on.  The result is
\* the object after the call and what the call returned or raised.
RECURSIVE UpdateFrom(_, _, _)
UpdateFrom(self, k, i) ==
    LET v == SplitsFor(self, k)
    IN IF i > Len(self.mods) \/ ~v.ok THEN [self |-> self, ret |-> v]
       ELSE UpdateFrom([self EXCEPT !.mods[i] = UpdateModule(self, self.mods[i], k)], k, i + 1)

update_bn_splits_long_cycle(self, long_cycle_bn_scale) == UpdateFrom(self, long_cycle_bn_scale, 1)

\* The SubBatchNorm3d modules of the two pathways after construction
\* (src/models/slowfast.py): num_splits as configured (1 when not), split_bn a
\* batch norm over num_features * num_splits features.
SubBatchNorm3d(num_features, base) ==
    LET n == IF base = None THEN 1 ELSE base[1]
    IN [num_features |-> num_features, num_splits |-> n,
        split_bn |-> BatchNorm3d(num_features * n)]

BN_Init ==
    /\ \E base \in {None} \cup {Some(b) : b \in 1..MaxSplits}, cnt \in 0..MaxSubBn :
         bn = [base_bn_splits |-> base,
               mods |-> [i \in 1..cnt |-> SubBatchNorm3d(8 * i, base)]]
    /\ bnPre = bn
    /\ bnRet = Err("not called")
    /\ bnLastK = 0

\* update_bn_splits_long_cycle(k), k a scale: a count, k >= 0.
BN_Update ==
    /\ obj = "SlowFastDisruptionClassifier"
    /\ \E k \in 0..MaxScale :
         LET r == update_bn_splits_long_cycle(bn, k)
         IN /\ bn' = r.self
            /\ bnRet' = r.ret
            /\ bnLastK' = k
    /\ bnPre' = bn
    /\ UNCHANGED <<obj, vseVars, sfVars, clfVars, sbVars>>

----------------------------------------------------------------------------
\* SBERTDisruptionClassifier

Devices == {"cpu", "cuda:0", "cuda:1"}
MaxLens == {6, 8}

\* list(map(int, range(1, n + 1)))
Range1(n) == [j \in 1..n |-> j]

\* t.repeat(rows, 1) of a one-dimensional t
Repeat(t, rows) == [i \in 1..rows |-> t]

\* The doy of the constructor's probe: repeat(1, 1).
SBERT_doy_single(self, x) == Repeat(Range1(self.max_len), 1)

\* doy = torch.IntTensor(list(map(int, range(1, self.sbert.max_len + 1)))).repeat(x.size(0), 1)
SBERT_doy(self, x) == Repeat(Range1(self.max_len), x[1])

\* self.sbert(x, doy, mask) (SBERT lives in src/models/transformer.py): one
\* encoding per time step.
SBERT_forward(x, doy, mask) == Ok(<<x[1], x[2], 64>>)

\* A call forward makes: the callee and what it is given (for sbert, with the
\* device of doy and the device its weights are on at that moment).
CallOf(callee, x, doy, mask, doyDevice, weightsDevice) ==
    [callee |-> callee, x |-> x, doy |-> doy, mask |-> mask,
     doyDevice |-> doyDevice, weightsDevice |-> weightsDevice]

\* SBERTDisruptionClassifier.forward: the calls it makes, in order; an exception
\* of a callee ends the call.
SBERTDisruptionClassifier_forward(self, x0) ==
    LET x1 == VideoSpatioEncoder_forward(self.spatio_encoder, x0)
        doy == SBERT_doy(self, x1.shape)
        mask == None
        x2 == SBERT_forward(x1.shape, doy, mask)
        c1 == CallOf("spatio_encoder", x0, <<>>, None, "", "")
    IN IF ~x1.ok THEN <<c1>>
       ELSE <<c1, CallOf("sbert", x1.shape, doy, mask, self.device, self.sbertDevice),
              CallOf("classifier", x2.shape, <<>>, None, "", "")>>

\* __init__: self.device = next(self.sbert.parameters()).device.  The
\* constructor's probe feeds sbert tensors made on the cpu, so construction
\* succeeds with the sbert on the cpu.
SBERTDisruptionClassifier_init(spatio_encoder, max_len, sbertDevice) ==
    [spatio_encoder |-> spatio_encoder, max_len |-> max_len,
     device |-> sbertDevice, sbertDevice |-> sbertDevice]

SB_Init ==
    /\ \E ts \in {1, Stride}, ml \in MaxLens :
         sb = SBERTDisruptionClassifier_init(
                  VideoSpatioEncoder_init(DefaultInputShape, ts), ml, "cpu")
    /\ sbB = 0
    /\ sbLog = <<>>

\* nn.Module.to(device): the parameters and buffers of every submodule move;
\* plain attributes such as self.device are not touched.
SB_To ==
    /\ obj = "SBERTDisruptionClassifier"
    /\ \E d \in Devices : sb' = [sb EXCEPT !.sbertDevice = d]
    /\ UNCHANGED <<obj, sbB, sbLog, vseVars, sfVars, clfVars, bnVars>>

SB_Forward ==
    /\ obj = "SBERTDisruptionClassifier"
    /\ \E b \in 1..MaxBatch :
         /\ sbB' = b
         /\ sbLog' = SBERTDisruptionClassifier_forward(sb, <<b>> \o sb.spatio_encoder.input_shape)
    /\ UNCHANGED <<obj, sb, vseVars, sfVars, clfVars, bnVars>>

----------------------------------------------------------------------------
SFE_Idle == sf = None /\ sfpc = "idle" /\ sfCall = 0 /\ sfLoc = None /\ sfPrevLaterals = None
CLF_Idle == clf = None /\ clfPre = None /\ clfLastOp = "none" /\ clfIn = 0 /\ clfOut = Err("not called")
BN_Idle == bn = None /\ bnPre = None /\ bnRet = Err("not called") /\ bnLastK = 0
SB_Idle == sb = None /\ sbB = 0 /\ sbLog = <<>>

Init ==
    \/ obj = "VideoSpatioEncoder" /\ VSE_Init /\ SFE_Idle /\ CLF_Idle /\ BN_Idle /\ SB_Idle
    \/ obj = "SlowFastEncoder" /\ VSE_Idle /\ SFE_Init /\ CLF_Idle /\ BN_Idle /\ SB_Idle
    \/ obj = "Classifier" /\ VSE_Idle /\ SFE_Idle /\ CLF_Init /\ BN_Idle /\ SB_Idle
    \/ obj = "SlowFastDisruptionClassifier" /\ VSE_Idle /\ SFE_Idle /\ CLF_Idle /\ BN_Init /\ SB_Idle
    \/ obj = "SBERTDisruptionClassifier" /\ VSE_Idle /\ SFE_Idle /\ CLF_Idle /\ BN_Idle /\ SB_Init

Next ==
    \/ VSE_Forward
    \/ VSE_GetOutputSize
    \/ SFE_Call
    \/ SFE_Split
    \/ SFE_FastNet
    \/ SFE_SlowNet
    \/ SFE_CatDropout
    \/ CLF_Forward
    \/ CLF_GetOutputSize
    \/ CLF_Summary
    \/ CLF_SetMode
    \/ BN_Update
    \/ SB_To
    \/ SB_Forward

Spec == Init /\ [][Next]_vars

----------------------------------------------------------------------------
----------------------------------------------------------------------------
\* The frames at indices 0, step, 2*step, ... of a clip of t frames.
EveryNth(fr, t, step) ==
    /\ Len(fr) = Ceil(t, step)
    /\ \A i \in 1..Len(fr) : fr[i] = (i - 1) * step

Elems(s) == {s[i] : i \in 1..Len(s)}

\* C3: split_slow_fast gives the fast path the frames 0, tau_fast, 2*tau_fast, ...
\* (ceil(T / tau_fast) of them) and the slow path the frames 0, alpha*tau_fast, ...
\* (ceil(T / (alpha*tau_fast)) of them); every slow frame is a fast frame, the slow
\* path never has more frames than the fast path, and batch, channel, height and
\* width are those of the input.
C3_Split ==
    (obj = "SlowFastEncoder" /\ sfLoc.x_fast # None)
    => LET x == sfLoc.x
           t == Len(x.frames)
           slow == sfLoc.x_slow
           fast == sfLoc.x_fast
       IN /\ EveryNth(fast.frames, t, sf.tau_fast)
          /\ EveryNth(slow.frames, t, sf.alpha * sf.tau_fast)
          /\ Elems(slow.frames) \subseteq Elems(fast.frames)
          /\ Len(slow.frames) <= Len(fast.frames)
          /\ \A p \in {slow, fast} : p.n = x.n /\ p.c = x.c /\ p.h = x.h /\ p.w = x.w

\* A split of a clip in which the slow path really is sparser than the fast path,
\* and the fast path sparser than the input.
C3_Witness ==
    /\ obj = "SlowFastEncoder" /\ sfLoc.x_fast # None
    /\ sf.alpha > 1 /\ sf.tau_fast > 1
    /\ Len(sfLoc.x_slow.frames) < Len(sfLoc.x_fast.frames)
    /\ Len(sfLoc.x_fast.frames) < Len(sfLoc.x.frames)

\* C2: in every call of SlowFastEncoder.forward the fast pathway has finished
\* before the slow pathway starts, the slow pathway is given the laterals the
\* fast pathway produced in this very call, and the result is the slow output
\* followed by the fast output along dimension 1: the batch size is the input's
\* and the feature size is the sum of the two pathways' feature sizes.
C2_Forward ==
    (obj = "SlowFastEncoder" /\ sfpc # "idle")
    => /\ \E k \in 0..5 : sfLoc.events = SubSeq(<<"split", "fastnet", "slownet", "cat", "dropout">>, 1, k)
       /\ sfLoc.slowArgs # None =>
            /\ sfLoc.fastOut # None
            /\ sfLoc.slowArgs[2].call = sfCall
            /\ sfLoc.slowArgs[2] = sfLoc.laterals
            /\ sfLoc.slowArgs[2].frames = sfLoc.x_fast.frames
       /\ sfpc = "done" =>
            /\ Len(sfLoc.events) = 5
            /\ sfLoc.out.shape = <<sfLoc.x.n, sfLoc.slowOut.shape[2] + sfLoc.fastOut.shape[2]>>
            /\ [i \in 1..2 |-> sfLoc.out.parts[i].path] = <<"slow", "fast">>
            /\ sfLoc.out.parts[1].width = sfLoc.slowOut.shape[2]
            /\ sfLoc.out.parts[2].width = sfLoc.fastOut.shape[2]

\* A second call that has finished, on a clip of another length than the first.
C2_Witness ==
    /\ obj = "SlowFastEncoder" /\ sfpc = "done" /\ sfCall = 2
    /\ sfPrevLaterals # None
    /\ sfPrevLaterals.frames # sfLoc.laterals.frames
    /\ sfLoc.x.n > 1

----------------------------------------------------------------------------
\* C4 (as stated): forward on an input of shape (N, *input_shape) yields shape
\* (N, num_classes) for every batch size N >= 1.
C4_Original ==
    (obj = "Classifier" /\ clfLastOp = "forward")
    => (clfOut.ok /\ clfOut.shape = <<clfIn.n, clf.num_classes>>)

\* C4 (amended): the head's first Linear layer is as wide as the features the
\* encoder produces for every batch size N >= 1, whatever the batch size of the
\* probe (the features are (N, in_features), and in_features is 512 for
\* R2Plus1DClassifier); forward yields shape (N, num_classes) unless the module is
\* in training mode and N = 1, where the head's BatchNorm1d raises ValueError.
C4_HeadWidth ==
    /\ obj = "Classifier" =>
         /\ clf.kind = "R2Plus1DClassifier" => clf.in_features = 512
         /\ clf.in_features = EncoderOut(clf, MaxBatch + 1).shape[2]
    /\ (obj = "Classifier" /\ clfLastOp = "forward") =>
         /\ clfIn.feat = Ok(<<clfIn.n, clf.in_features>>)
         /\ clfOut.ok <=> ~(clfPre.training /\ clfIn.n = 1)
         /\ clfOut.ok => clfOut.shape = <<clfIn.n, clf.num_classes>>
         /\ ~clfOut.ok => clfOut.err = "ValueError"

\* A forward, in training mode, of a batch that is neither one sample nor of the
\* probe's size.
C4_Witness ==
    /\ obj = "Classifier" /\ clfLastOp = "forward"
    /\ clfPre.training /\ clfIn.n = MaxBatch /\ clfIn.n # ProbeBatch[clf.kind]
    /\ clfOut.ok /\ clfOut.shape = <<MaxBatch, clf.num_classes>>

\* C6: summary() and the shape probes return only None or a shape and leave the
\* module as it was: parameters, buffers (the batch-norm running statistics and
\* batch counts) and training/eval mode.
C6_ReadOnly ==
    (obj = "Classifier" /\ clfLastOp \in {"summary", "get_output_size"})
    => clf = clfPre

----------------------------------------------------------------------------
\* C7: with an integer base_bn_splits, after any sequence of calls
\* update_bn_splits_long_cycle(k1), ..., (kn) every SubBatchNorm3d module has
\* num_splits = base_bn_splits * kn and a split_bn over num_features * num_splits
\* features, the last call returned base_bn_splits * kn, and base_bn_splits is
\* what it was: the scales do not accumulate.
C7_Splits ==
    (obj = "SlowFastDisruptionClassifier" /\ bn.base_bn_splits # None
        /\ bnRet # Err("not called"))
    => /\ bnRet.ok
       /\ \A i \in 1..Len(bn.mods) :
            /\ bn.mods[i].num_splits = bn.base_bn_splits[1] * bnLastK
            /\ bn.mods[i].split_bn.num_features = bn.mods[i].num_features * bn.mods[i].num_splits
            /\ bn.mods[i].num_features = bnPre.mods[i].num_features
       /\ bnRet.val = bn.base_bn_splits[1] * bnLastK
       /\ bn.base_bn_splits = bnPre.base_bn_splits
       /\ Len(bn.mods) = Len(bnPre.mods)

\* A call with a scale above 1 on modules a call with another scale has already
\* changed.
C7_Witness ==
    /\ obj = "SlowFastDisruptionClassifier" /\ bn.base_bn_splits = Some(MaxSplits)
    /\ bnRet.ok /\ bnLastK = 2 /\ Len(bn.mods) = MaxSubBn
    /\ bnPre.mods[1].num_splits = MaxSplits * MaxScale
    /\ bn.mods[1].num_splits = MaxSplits * 2

\* C8: with base_bn_splits = None every call of update_bn_splits_long_cycle(k)
\* ends in an error (TypeError), and no SubBatchNorm3d module's num_splits or
\* split_bn is changed by it.
C8_NoneRaises ==
    (obj = "SlowFastDisruptionClassifier" /\ bn.base_bn_splits = None)
    => /\ ~bnRet.ok
       /\ bnRet.err \in {"not called", "TypeError"}
       /\ bn = bnPre
       /\ \A i \in 1..Len(bn.mods) : bn.mods[i] = SubBatchNorm3d(8 * i, None)

C8_Witness ==
    /\ obj = "SlowFastDisruptionClassifier" /\ bn.base_bn_splits = None
    /\ Len(bn.mods) = MaxSubBn /\ bnLastK = MaxScale
    /\ bnRet = Err("TypeError")

\* C9: the device forward places doy on (self.device) is the device that holds
\* the sbert parameters, in every state reached by device moves and forwards.
C9_DoyDevice ==
    obj = "SBERTDisruptionClassifier"
    => /\ sb.device = sb.sbertDevice
       /\ Len(sbLog) >= 2 => sbLog[2].doyDevice = sbLog[2].weightsDevice

\* C10: forward calls spatio_encoder, sbert and classifier, in that order; sbert
\* is given the encoder's output x of shape (B, seq_len, num_features), a doy of
\* B rows (as many as x has), each row 1, 2, ..., sbert.max_len, and mask = None.
C10_SbertArgs ==
    (obj = "SBERTDisruptionClassifier" /\ sbB > 0)
    => /\ [i \in 1..Len(sbLog) |-> sbLog[i].callee] = <<"spatio_encoder", "sbert", "classifier">>
       /\ sbLog[1].x = <<sbB>> \o sb.spatio_encoder.input_shape
       /\ LET c == sbLog[2]
          IN /\ Len(c.x) = 3 /\ c.x[1] = sbB /\ c.x[2] = sb.spatio_encoder.seq_len
             /\ Len(c.doy) = sbB /\ Len(c.doy) = c.x[1]
             /\ \A i \in 1..Len(c.doy) :
                  /\ Len(c.doy[i]) = sb.max_len
                  /\ \A j \in 1..sb.max_len : c.doy[i][j] = j
             /\ c.mask = None
       /\ sbLog[3].x[1] = sbB

\* A forward of more than one sample after the module has been moved.
C10_Witness ==
    /\ obj = "SBERTDisruptionClassifier" /\ sbB = MaxBatch /\ Len(sbLog) = 3
    /\ Len(sbLog[2].doy) = MaxBatch
    /\ sbLog[2].weightsDevice # "cpu"
    /\ sb.max_len # sb.spatio_encoder.seq_len

====
